---------------------------- MODULE Spec2Model ----------------------------
(***************************************************************************)
(* Research Paper Triage: the watched-folder pipeline of main.py           *)
(* (PaperHandler.on_created / process_paper), the response normalisation   *)
(* of ai_analyzer.py (AIAnalyzer.analyze_paper / _parse_response), the     *)
(* text extraction of pdf_processor.py and the two sinks (csv_writer.py,   *)
(* sheets_writer.py).                                                      *)
(*                                                                         *)
(* Text is a sequence of one-character strings.  A response of the LLM is  *)
(* a pair: the characters of the response text, in which the character "m" *)
(* stands for the member list ("key": value, ...) of a JSON object and "n" *)
(* for a JSON number, and the payload those members denote.                *)
(*                                                                         *)
(* The observer dispatches creation events one at a time on its own        *)
(* thread: on_created runs to its end before the next event is taken.      *)
(***************************************************************************)
EXTENDS Integers, Sequences, FiniteSets, TLC

(***************************************************************************)
(* Bounds of the model.                                                    *)
(***************************************************************************)
\* longest response text
MaxLen == 4
\* longest relevance_score string
MaxScoreLen == 2
\* integer relevance scores range over -ScoreSpan .. 10 + ScoreSpan
ScoreSpan == 3
\* creation events the observer emits in one behaviour
MaxEvents == 2
\* data rows a sink store holds in the sink specification
MaxRows == 2

(***************************************************************************)
(* Sequences and Python string helpers.                                    *)
(***************************************************************************)
SeqsUpTo(S, n) == UNION {[1..k -> S] : k \in 0..n}

Min(S) == CHOOSE x \in S : \A y \in S : x <= y
Max(S) == CHOOSE x \in S : \A y \in S : x >= y

Whitespace == {" ", "\n"}

\* str.strip(): drop leading and trailing whitespace
Strip(s) ==
    LET keep == {i \in 1..Len(s) : s[i] \notin Whitespace}
    IN  IF keep = {} THEN <<>> ELSE SubSeq(s, Min(keep), Max(keep))

\* str.find(c): 0-based index of the first occurrence, -1 when absent
Find(s, c) ==
    LET at == {i \in 1..Len(s) : s[i] = c}
    IN  IF at = {} THEN -1 ELSE Min(at) - 1

\* str.rfind(c): 0-based index of the last occurrence, -1 when absent
RFind(s, c) ==
    LET at == {i \in 1..Len(s) : s[i] = c}
    IN  IF at = {} THEN -1 ELSE Max(at) - 1

\* s[a:b] for 0 <= a, 0 <= b
Slice(s, a, b) == SubSeq(s, a + 1, IF b > Len(s) THEN Len(s) ELSE b)

(***************************************************************************)
(* JSON values.                                                            *)
(***************************************************************************)
JInt(n)   == [t |-> "int", n |-> n]
JBool(b)  == [t |-> "bool", b |-> b]
\* a finite float, in halves: JFloat(15) is 7.5
JFloat(h) == [t |-> "float", h |-> h]
\* 1e999 / Infinity, -1e999 / -Infinity, NaN: json.loads accepts all of them
JInf      == [t |-> "inf"]
JNegInf   == [t |-> "neginf"]
JNaN      == [t |-> "nan"]
JStr(s)   == [t |-> "str", s |-> s]
JNull     == [t |-> "null"]
JList     == [t |-> "list"]
JDict     == [t |-> "dict"]

Digits == {"1", "7"}
DigitValue(c) == IF c = "1" THEN 1 ELSE 7

RECURSIVE DecimalValue(_)
DecimalValue(s) ==
    IF s = <<>> THEN 0
    ELSE 10 * DecimalValue(SubSeq(s, 1, Len(s) - 1)) + DigitValue(s[Len(s)])

IsDigits(s) == Len(s) >= 1 /\ \A i \in 1..Len(s) : s[i] \in Digits

\* int(str): optional surrounding whitespace, optional sign, decimal digits
IntOfStr(str) ==
    LET s    == Strip(str)
        neg  == Len(s) >= 1 /\ s[1] = "-"
        body == IF neg THEN SubSeq(s, 2, Len(s)) ELSE s
    IN  IF IsDigits(body)
        THEN [ok |-> TRUE, n |-> IF neg THEN -DecimalValue(body) ELSE DecimalValue(body)]
        ELSE [ok |-> FALSE, exc |-> "ValueError"]

\* int(float): truncation toward zero
TruncHalves(h) == IF h < 0 THEN -((-h) \div 2) ELSE h \div 2

\* Python's int(v) on a parsed JSON value
PyInt(v) ==
    CASE v.t = "int"    -> [ok |-> TRUE, n |-> v.n]
      [] v.t = "bool"   -> [ok |-> TRUE, n |-> IF v.b THEN 1 ELSE 0]
      [] v.t = "float"  -> [ok |-> TRUE, n |-> TruncHalves(v.h)]
      [] v.t = "inf"    -> [ok |-> FALSE, exc |-> "OverflowError"]
      [] v.t = "neginf" -> [ok |-> FALSE, exc |-> "OverflowError"]
      [] v.t = "nan"    -> [ok |-> FALSE, exc |-> "ValueError"]
      [] v.t = "str"    -> IntOfStr(v.s)
      [] OTHER          -> [ok |-> FALSE, exc |-> "TypeError"]

(***************************************************************************)
(* json.loads on the characters of a response.                             *)
(***************************************************************************)
Chars == {"{", "}", "m", "n", "w", " "}

NoValue == [t |-> "none"]

\* the candidate text as JSON: a number, an object (with or without
\* members), or a JSONDecodeError
JsonLoads(text) ==
    LET s == Strip(text)
    IN  IF s = <<"n">> THEN [ok |-> TRUE, kind |-> "scalar", members |-> FALSE]
        ELSE IF Len(s) >= 2 /\ s[1] = "{" /\ s[Len(s)] = "}"
        THEN LET inner == Strip(SubSeq(s, 2, Len(s) - 1))
             IN  IF inner = <<>> THEN [ok |-> TRUE, kind |-> "object", members |-> FALSE]
                 ELSE IF inner = <<"m">>
                 THEN [ok |-> TRUE, kind |-> "object", members |-> TRUE]
                 ELSE [ok |-> FALSE, kind |-> "error", members |-> FALSE]
        ELSE [ok |-> FALSE, kind |-> "error", members |-> FALSE]

\* json_text without the search for the braces
json_text_whole(response_text) == Strip(response_text)

\* _parse_response, lines 138-148: the candidate JSON text
json_text(response_text) ==
    LET text      == Strip(response_text)
        start_idx == Find(text, "{")
        end_idx   == RFind(text, "}")
    IN  IF start_idx # -1 /\ end_idx # -1
        THEN Slice(text, start_idx, end_idx + 1)
        ELSE text

(***************************************************************************)
(* The analysis dictionary.                                                *)
(***************************************************************************)
required_fields ==
    << "title", "authors", "research_area", "relevance_score",
       "key_findings", "methodology", "performance_metrics", "recommended_action" >>

Fields == {required_fields[i] : i \in 1..Len(required_fields)}

\* the dictionary a payload's members denote
DictOf(payload) ==
    [f \in payload.present |->
        IF f = "relevance_score" THEN payload.score
        ELSE IF f = "research_area" THEN JStr(payload.area)
        ELSE IF f = "recommended_action" THEN JStr(payload.action)
        ELSE JStr(<<"w">>)]

EmptyDict == [f \in {} |-> NoValue]

\* missing_fields with the last required field left out of the check
missing_fields_short(analysis) ==
    SelectSeq(SubSeq(required_fields, 1, Len(required_fields) - 1),
              LAMBDA f : f \notin DOMAIN analysis)

\* [field for field in required_fields if field not in analysis]
missing_fields(analysis) ==
    SelectSeq(required_fields, LAMBDA f : f \notin DOMAIN analysis)

\* max(1, score): the upper bound forgotten
ClampLow(score) == IF score < 1 THEN 1 ELSE score

\* max(1, min(10, score))
Clamp(score) == IF score < 1 THEN 1 ELSE IF score > 10 THEN 10 ELSE score

\* _parse_response, lines 163-171: the relevance_score normalisation
normalize_score(analysis) ==
    LET c == PyInt(analysis["relevance_score"])
    IN  IF c.ok
        THEN IF ~(1 <= c.n /\ c.n <= 10)
             THEN [raised |-> "none",
                   analysis |-> [analysis EXCEPT !["relevance_score"] = JInt(Clamp(c.n))]]
             ELSE [raised |-> "none", analysis |-> analysis]
        ELSE IF c.exc \in {"ValueError", "TypeError"}
        THEN [raised |-> "none",
              analysis |-> [analysis EXCEPT !["relevance_score"] = JInt(5)]]
        ELSE [raised |-> c.exc, analysis |-> analysis]

Raise(exc, missing) == [raised |-> exc, missing |-> missing, analysis |-> EmptyDict]

\* _parse_response: the dictionary returned, or the exception raised
parse_response(response) ==
    LET parsed == JsonLoads(json_text(response.text))
    IN  IF ~parsed.ok THEN Raise("JSONDecodeError", <<>>)
        ELSE IF parsed.kind = "scalar" THEN Raise("TypeError", <<>>)
        ELSE LET analysis == IF parsed.members THEN DictOf(response.payload) ELSE EmptyDict
                 missing  == missing_fields(analysis)
             IN  IF missing # <<>> THEN Raise("ValueError", missing)
                 ELSE LET r == normalize_score(analysis)
                      IN  [raised |-> r.raised, missing |-> <<>>, analysis |-> r.analysis]


(***************************************************************************)
(* The LLM capability and analyze_paper.                                   *)
(***************************************************************************)
Payload(present, score, area, action) ==
    [present |-> present, score |-> score, area |-> area, action |-> action]

\* a reply of generate_content: the call raised, or text came back
Reply(api_ok, text, payload) == [api_ok |-> api_ok, text |-> text, payload |-> payload]

NoReply == [api_ok |-> FALSE, text |-> <<>>, payload |-> Payload({}, JNull, <<>>, <<>>)]

NoAnalysis == [ok |-> FALSE, record |-> EmptyDict, prefix |-> "", cause |-> "", missing |-> <<>>]

\* analyze_paper: the record returned, or the Exception raised in its place
analyze_paper(reply) ==
    IF ~reply.api_ok
    THEN [ok |-> FALSE, record |-> EmptyDict, prefix |-> "Failed to analyze paper",
          cause |-> "APIError", missing |-> <<>>]
    ELSE LET r == parse_response(reply)
         IN  IF r.raised = "none"
             THEN [ok |-> TRUE, record |-> r.analysis, prefix |-> "", cause |-> "",
                   missing |-> <<>>]
             ELSE IF r.raised = "JSONDecodeError"
             THEN [ok |-> FALSE, record |-> EmptyDict,
                   prefix |-> "Invalid JSON response from Gemini",
                   cause |-> r.raised, missing |-> <<>>]
             ELSE [ok |-> FALSE, record |-> EmptyDict,
                   prefix |-> "Failed to analyze paper",
                   cause |-> r.raised, missing |-> r.missing]

(***************************************************************************)
(* Files.                                                                  *)
(***************************************************************************)
\* paper_1.pdf is FileName("paper", <<1>>, "pdf")
FileName(base, sfx, ext) == [base |-> base, sfx |-> sfx, ext |-> ext]

\* Path.suffix.lower()
Lower(ext) == IF ext = "PDF" THEN "pdf" ELSE ext

\* f"{stem}_{counter}.pdf"
Suffixed(name, counter) == FileName(name.base, Append(name.sfx, counter), "pdf")

\* a PDF: unreadable, or the texts of its pages
Corrupt == << <<"corrupt">> >>
PdfBodies ==
    { Corrupt,
      << <<" ">>, <<>> >>,
      << <<"w">>, <<" ", "w">> >> }

\* "\n\n".join(text_content)
RECURSIVE JoinPages(_)
JoinPages(pages) ==
    IF pages = <<>> THEN <<>>
    ELSE IF Len(pages) = 1 THEN pages[1]
    ELSE pages[1] \o <<"\n", "\n">> \o JoinPages(Tail(pages))

\* process_paper, line 93: the character cap of inbox-triggered runs
max_chars == 100000

\* "\n\n[... Text truncated due to length ...]"
TruncationMarker == <<"\n", "\n", "w">>

\* PDFProcessor.extract_text on the inbox file `name`
extract_text(dir, name) ==
    IF name \notin DOMAIN dir THEN [raised |-> "FileNotFoundError", text |-> <<>>]
    ELSE IF Lower(name.ext) # "pdf" THEN [raised |-> "ValueError", text |-> <<>>]
    ELSE IF dir[name].body = Corrupt THEN [raised |-> "Exception", text |-> <<>>]
    ELSE [raised |-> "none", text |-> JoinPages(dir[name].body)]

\* PDFProcessor.extract_text_limited on the inbox file `name`
extract_text_limited(dir, name) ==
    LET full == extract_text(dir, name)
    IN  IF full.raised = "none" /\ Len(full.text) > max_chars
        THEN [raised |-> "none",
              text |-> SubSeq(full.text, 1, max_chars) \o TruncationMarker]
        ELSE full

\* not paper_text: the strip forgotten
is_empty(text) == text = <<>>

\* process_paper, line 95: not paper_text.strip()
is_blank(text) == Strip(text) = <<>>

\* the result of write_analysis ignored
after_write_always(success) == "archive"

\* process_paper, lines 107-109: the step after write_analysis returned
after_write(success) == IF success THEN "archive" ELSE "release"

\* process_paper, lines 113-120: the first unused name in the processed folder
RECURSIVE FreePath(_, _, _, _)
FreePath(dir, name, processed_path, counter) ==
    IF processed_path \in DOMAIN dir
    THEN FreePath(dir, name, Suffixed(name, counter), counter + 1)
    ELSE processed_path

\* exceptions the steps of process_paper raise; each derives from Exception
Exceptions == {"FileNotFoundError", "ValueError", "Exception", "OSError"}

\* an except clause that names ValueError only
catches_value_error(exc) == exc = "ValueError"

\* process_paper, line 130: except Exception
process_paper_catches(exc) == exc \in Exceptions

\* what leaves process_paper when a step raised `exc`
propagated(exc) == IF process_paper_catches(exc) THEN "none" ELSE exc

\* the except clause sending the pipeline back to the step that raised
on_exception_retry(step) == step

\* process_paper, lines 130-132: the error is logged and process_paper
\* returns; `step` is not entered again
on_exception(step) == "release"

\* a finally clause that leaves the set as it is
discard_nothing(in_flight, path) == in_flight

\* on_created, line 77: self.processing.discard(str(file_path))
discard(in_flight, path) == in_flight \ {path}

\* the move without the search for an unused name
archive_path_same(dir, name) == name

archive_path(dir, name) == FreePath(dir, name, name, 1)

\* a directory with file `name` added, removed
Put(dir, name, content) ==
    [n \in DOMAIN dir \cup {name} |-> IF n = name THEN content ELSE dir[n]]
Drop(dir, name) == [n \in DOMAIN dir \ {name} |-> dir[n]]

EmptyDir == [n \in {} |-> 0]

(***************************************************************************)
(* The sinks.                                                              *)
(***************************************************************************)
HEADERS ==
    << "Timestamp", "Filename", "Title", "Authors", "Research Area",
       "Relevance Score", "Key Findings", "Methodology", "Performance Metrics",
       "Recommended Action" >>

\* analysis.get(field, default)
Get(analysis, field, default) ==
    IF field \in DOMAIN analysis THEN analysis[field] ELSE JStr(default)

\* write_analysis, lines 76-89: the row of one analysis
row_data(analysis, filename) ==
    << "now", filename,
       Get(analysis, "title", <<"N/A">>),
       Get(analysis, "authors", <<"N/A">>),
       Get(analysis, "research_area", <<"Other">>),
       Get(analysis, "relevance_score", <<"N/A">>),
       Get(analysis, "key_findings", <<"N/A">>),
       Get(analysis, "methodology", <<"N/A">>),
       Get(analysis, "performance_metrics", <<"N/A">>),
       Get(analysis, "recommended_action", <<"N/A">>) >>

\* a store is absent (no file, no spreadsheet of that name), or its rows
Absent == << <<"absent">> >>

\* CSVWriter._initialize_csv
initialize_csv(store) == IF store = Absent THEN <<HEADERS>> ELSE store

\* CSVWriter.write_analysis on success: open(..., 'a') creates a missing file
csv_append(store, row) == IF store = Absent THEN <<row>> ELSE Append(store, row)

\* SheetsWriter._setup_sheet: an absent store is gspread.SpreadsheetNotFound
setup_sheet(store) ==
    IF store = Absent THEN <<HEADERS>>
    ELSE LET existing_headers == IF store = <<>> THEN <<>> ELSE store[1]
         IN  IF existing_headers = <<>> \/ existing_headers # HEADERS
             THEN <<HEADERS>> \o store
             ELSE store

\* SheetsWriter.write_analysis on success: worksheet.append_row
sheet_append(store, row) == Append(store, row)


(***************************************************************************)
(* State.                                                                  *)
(***************************************************************************)
VARIABLES
    inbox,        \* Config.PAPERS_INBOX: file name -> content
    processed,    \* Config.PAPERS_PROCESSED: file name -> content
    csv,          \* the file at Config.CSV_OUTPUT_PATH
    sheet,        \* the first worksheet of the spreadsheet Config.SHEET_NAME
    queue,        \* creation events the observer has not dispatched yet
    pc,           \* where the observer's dispatch thread is
    file_path,    \* on_created: the path of the event being handled
    processing,   \* PaperHandler.processing
    paper_text,   \* process_paper: the extracted text
    analysis,     \* process_paper: what analyze_paper returned or raised
    response,     \* analyze_paper: the reply of the LLM capability
    replies,      \* the replies the LLM capability may give
    calls,        \* steps process_paper has invoked for the event being handled
    overlapped,   \* the event being handled arrived while one for its path was unfinished
    events,       \* creation events emitted so far
    failed,       \* process_paper: the step that failed for the event being handled
    uncaught,     \* the exception that left process_paper, if any
    observer,     \* the observer's dispatch thread
    main,         \* where main() is
    exit_code     \* what main() returned

vars ==
    << inbox, processed, csv, sheet, queue, pc, file_path, processing, paper_text,
       analysis, response, replies, calls, overlapped, events, failed, uncaught,
       observer, main, exit_code >>

\* what an action of the dispatch thread leaves alone in main()
mainVars == << observer, main, exit_code >>

NoPath == FileName("", <<>>, "")
NoText == <<"none">>
NoCalls == [extract |-> 0, llm |-> 0, write |-> 0, move |-> 0]
NoExit == <<>>

Paper  == FileName("paper", <<>>, "pdf")
Scan   == FileName("scan", <<>>, "PDF")
Notes  == FileName("notes", <<>>, "txt")

\* names of the files and folders that appear in the inbox
InboxNames == {Paper, Scan, Notes}

Content(origin, gen, body) == [origin |-> origin, gen |-> gen, body |-> body]

\* a file that was in the processed folder before the program started
Old(name) == Content(name, 0, Corrupt)

Event(path, is_directory, overlap) ==
    [src_path |-> path, is_directory |-> is_directory, overlap |-> overlap]

(***************************************************************************)
(* Replies of the LLM capability.                                          *)
(***************************************************************************)
Object == <<"{", "m", "}">>

\* the prompt of analyze_paper: "One of: ..."
research_areas ==
    { <<"Data Pipelines">>, <<"Distributed Systems">>, <<"Hardware Acceleration">>,
      <<"LLMs">>, <<"Other">> }
recommended_actions == { <<"Deep Read">>, <<"Skim">>, <<"Archive">> }

\* what a reply may carry in the two fields: the listed values and others
AreaTexts == research_areas \cup { <<"Quantum Computing">> }
ActionTexts == recommended_actions \cup { <<"Read Later">> }

FullPayload(score) == Payload(Fields, score, <<"LLMs">>, <<"Skim">>)

\* the replies drawn in the watcher specification
WatchReplies ==
    { Reply(TRUE, Object, FullPayload(JInt(8))),
      Reply(TRUE, <<"w">> \o Object, FullPayload(JInt(0))),
      Reply(TRUE, Object, Payload(Fields \ {"authors"}, JInt(8), <<"LLMs">>, <<"Skim">>)),
      Reply(TRUE, <<"w">>, FullPayload(JInt(8))),
      Reply(FALSE, <<>>, FullPayload(JInt(8))) }

(***************************************************************************)
(* Initial states: main() has validated the configuration and constructed  *)
(* the CSVWriter; the observer is started and no event has arrived.        *)
(***************************************************************************)
InitHandler ==
    /\ pc = "idle"
    /\ file_path = NoPath
    /\ processing = {}
    /\ paper_text = NoText
    /\ analysis = NoAnalysis
    /\ response = NoReply
    /\ calls = NoCalls
    /\ overlapped = FALSE
    /\ failed = "none"
    /\ uncaught = "none"
    /\ observer = "running"
    /\ main = "watching"
    /\ exit_code = NoExit

Init ==
    /\ inbox = EmptyDir
    /\ processed \in { EmptyDir,
                       [n \in {Paper} |-> Old(n)],
                       [n \in {Paper, Suffixed(Paper, 1)} |-> Old(n)] }
    /\ csv \in {initialize_csv(Absent), initialize_csv(<<>>)}
    /\ sheet = Absent
    /\ queue = <<>>
    /\ InitHandler
    /\ replies = WatchReplies
    /\ events = 0

(***************************************************************************)
(* The environment: files and folders appear in the inbox, and the         *)
(* observer queues a creation event for each.                               *)
(***************************************************************************)
\* an event for `path` is queued or being handled
Unfinished(path) ==
    \/ \E i \in 1..Len(queue) : queue[i].src_path = path /\ ~queue[i].is_directory
    \/ pc # "idle" /\ file_path = path

\* a file is written into the inbox
FileCreated ==
    /\ observer = "running"
    /\ events < MaxEvents
    /\ \E name \in InboxNames \ DOMAIN inbox, body \in PdfBodies :
         /\ inbox' = Put(inbox, name, Content(name, events + 1, body))
         /\ queue' = Append(queue, Event(name, FALSE, FALSE))
    /\ events' = events + 1
    /\ UNCHANGED << processed, csv, sheet, pc, file_path, processing, paper_text,
                    analysis, response, replies, calls, overlapped, failed, uncaught, mainVars >>

\* a folder is created in the inbox
DirectoryCreated ==
    /\ observer = "running"
    /\ events < MaxEvents
    /\ \E name \in {Notes} :
         queue' = Append(queue, Event(name, TRUE, FALSE))
    /\ events' = events + 1
    /\ UNCHANGED << inbox, processed, csv, sheet, pc, file_path, processing,
                    paper_text, analysis, response, replies, calls, overlapped, failed, uncaught, mainVars >>

\* the observer reports the creation of a file of the inbox a second time
DuplicateEvent ==
    /\ observer = "running"
    /\ events < MaxEvents
    /\ \E name \in DOMAIN inbox :
         /\ Unfinished(name)
         /\ queue' = Append(queue, Event(name, FALSE, TRUE))
    /\ events' = events + 1
    /\ UNCHANGED << inbox, processed, csv, sheet, pc, file_path, processing,
                    paper_text, analysis, response, replies, calls, overlapped, failed, uncaught, mainVars >>

(***************************************************************************)
(* PaperHandler.on_created, on the observer's dispatch thread.             *)
(***************************************************************************)
\* lines 56-67: the event is taken and filtered
accepted(event, in_flight) ==
    /\ ~event.is_directory
    /\ Lower(event.src_path.ext) = "pdf"
    /\ event.src_path \notin in_flight

OnCreated ==
    /\ observer = "running"
    /\ pc = "idle"
    /\ queue # <<>>
    /\ queue' = Tail(queue)
    /\ IF accepted(Head(queue), processing)
       THEN /\ pc' = "settle"
            /\ file_path' = Head(queue).src_path
            /\ overlapped' = Head(queue).overlap
       ELSE UNCHANGED << pc, file_path, overlapped >>
    /\ UNCHANGED << inbox, processed, csv, sheet, processing, paper_text, analysis,
                    response, replies, calls, events, failed, uncaught, mainVars >>

\* lines 69-72: time.sleep(1) is over; the path enters the in-flight set
Settle ==
    /\ pc = "settle"
    /\ processing' = processing \cup {file_path}
    /\ pc' = "extract"
    /\ UNCHANGED << inbox, processed, csv, sheet, queue, file_path, paper_text,
                    analysis, response, replies, calls, overlapped, events, failed, uncaught, mainVars >>

\* process_paper, lines 91-97
Extract ==
    /\ pc = "extract"
    /\ LET r == extract_text_limited(inbox, file_path)
       IN  /\ paper_text' = IF r.raised = "none" THEN r.text ELSE NoText
           /\ pc' = IF r.raised # "none" THEN on_exception("extract")
                    ELSE IF is_blank(r.text) THEN "release"
                    ELSE "analyze"
           /\ failed' = IF r.raised # "none" THEN "extract" ELSE failed
           /\ uncaught' = propagated(r.raised)
    /\ calls' = [calls EXCEPT !.extract = @ + 1]
    /\ UNCHANGED << inbox, processed, csv, sheet, queue, file_path, processing,
                    analysis, response, replies, overlapped, events, mainVars >>

\* process_paper, lines 99-101
Analyze ==
    /\ pc = "analyze"
    /\ \E reply \in replies :
         /\ response' = reply
         /\ analysis' = analyze_paper(reply)
         /\ pc' = IF analyze_paper(reply).ok THEN "write" ELSE on_exception("analyze")
         /\ failed' = IF analyze_paper(reply).ok THEN failed ELSE "analyze"
         /\ uncaught' = IF analyze_paper(reply).ok THEN "none"
                         ELSE propagated("Exception")
    /\ calls' = [calls EXCEPT !.llm = @ + 1]
    /\ UNCHANGED << inbox, processed, csv, sheet, queue, file_path, processing,
                    paper_text, replies, overlapped, events, mainVars >>

\* process_paper, lines 103-109: CSVWriter.write_analysis appends the row
\* and returns True, or fails on I/O and returns False
WriteAnalysis ==
    /\ pc = "write"
    /\ \E success \in BOOLEAN :
         /\ csv' = IF success
                   THEN csv_append(csv, row_data(analysis.record, file_path))
                   ELSE csv
         /\ pc' = after_write(success)
         /\ failed' = IF success THEN failed ELSE "write"
    /\ UNCHANGED uncaught
    /\ calls' = [calls EXCEPT !.write = @ + 1]
    /\ UNCHANGED << inbox, processed, sheet, queue, file_path, processing,
                    paper_text, analysis, response, replies, overlapped, events, mainVars >>

\* process_paper, lines 111-122: shutil.move to the first unused name, which
\* may fail on I/O
Archive ==
    /\ pc = "archive"
    /\ \E moved \in BOOLEAN :
         IF moved /\ file_path \in DOMAIN inbox
         THEN /\ processed' = Put(processed, archive_path(processed, file_path),
                                  inbox[file_path])
              /\ inbox' = Drop(inbox, file_path)
              /\ pc' = "release"
              /\ UNCHANGED << failed, uncaught >>
         ELSE /\ UNCHANGED << inbox, processed >>
              /\ pc' = on_exception("archive")
              /\ failed' = "archive"
              /\ uncaught' = propagated("OSError")
    /\ calls' = [calls EXCEPT !.move = @ + 1]
    /\ UNCHANGED << csv, sheet, queue, file_path, processing, paper_text, analysis,
                    response, replies, overlapped, events, mainVars >>

\* on_created, lines 76-77: the finally clause; the handler returns, or an
\* exception that left process_paper ends the dispatch thread
Release ==
    /\ pc = "release"
    /\ processing' = discard(processing, file_path)
    /\ observer' = IF uncaught # "none" THEN "dead" ELSE observer
    /\ failed' = "none"
    /\ uncaught' = "none"
    /\ pc' = "idle"
    /\ file_path' = NoPath
    /\ paper_text' = NoText
    /\ analysis' = NoAnalysis
    /\ response' = NoReply
    /\ calls' = NoCalls
    /\ overlapped' = FALSE
    /\ UNCHANGED << inbox, processed, csv, sheet, queue, replies, events, main, exit_code >>

(***************************************************************************)
(* main(): the watch loop and its shutdown.                                *)
(***************************************************************************)
handlerVars ==
    << inbox, processed, csv, sheet, queue, pc, file_path, processing, paper_text,
       analysis, response, replies, calls, overlapped, events, failed, uncaught >>

\* lines 176-179: the interrupt arrives in the main thread, inside the
\* while True / time.sleep(1) loop
KeyboardInterrupt ==
    /\ main = "watching"
    /\ main' = "interrupted"
    /\ UNCHANGED << handlerVars, observer, exit_code >>

\* an except clause that only logs
interrupt_logged(thread) == thread

\* line 180: observer.stop() in the except KeyboardInterrupt clause asks a
\* running dispatch thread to stop
interrupt_handled(thread) == IF thread = "running" THEN "stopping" ELSE thread

ObserverStop ==
    /\ main = "interrupted"
    /\ observer' = interrupt_handled(observer)
    /\ main' = "joining"
    /\ UNCHANGED << handlerVars, exit_code >>

\* the dispatch thread sees the stop request once the handler it was
\* running has returned
DispatchThreadExits ==
    /\ observer = "stopping"
    /\ pc = "idle"
    /\ observer' = "stopped"
    /\ UNCHANGED << handlerVars, main, exit_code >>

\* lines 183-192: observer.join() returns when the dispatch thread has
\* ended; main returns 0
ObserverJoin ==
    /\ main = "joining"
    /\ observer \in {"stopped", "dead"}
    /\ main' = "returned"
    /\ exit_code' = <<0>>
    /\ UNCHANGED << handlerVars, observer >>

Next ==
    \/ FileCreated
    \/ DirectoryCreated
    \/ DuplicateEvent
    \/ OnCreated
    \/ Settle
    \/ Extract
    \/ Analyze
    \/ WriteAnalysis
    \/ Archive
    \/ Release
    \/ KeyboardInterrupt
    \/ ObserverStop
    \/ DispatchThreadExits
    \/ ObserverJoin

Spec == Init /\ [][Next]_vars

\* Every thread that can take a step takes one: a pipeline step that was
\* entered returns, and main() and the dispatch thread are scheduled.  Files
\* and the interrupt arrive or not as the environment pleases.
Fairness ==
    /\ WF_vars(OnCreated) /\ WF_vars(Settle) /\ WF_vars(Extract) /\ WF_vars(Analyze)
    /\ WF_vars(WriteAnalysis) /\ WF_vars(Archive) /\ WF_vars(Release)
    /\ WF_vars(ObserverStop) /\ WF_vars(DispatchThreadExits) /\ WF_vars(ObserverJoin)

SpecShutdown == Init /\ [][Next]_vars /\ Fairness

(***************************************************************************)
(* One pipeline run on every reply: a readable paper is in the inbox, its  *)
(* creation event is queued, and the LLM capability gives one fixed reply  *)
(* drawn from the replies below.                                           *)
(***************************************************************************)
ScoreChars == {"1", "7", "-", ".", "h", " "}

ScoreValues ==
    {JInt(n) : n \in (0 - ScoreSpan)..(10 + ScoreSpan)}
    \cup {JFloat(h) : h \in (0 - 2 * ScoreSpan)..(2 * (10 + ScoreSpan))}
    \cup {JStr(s) : s \in SeqsUpTo(ScoreChars, MaxScoreLen)}
    \cup {JBool(TRUE), JBool(FALSE), JInf, JNegInf, JNaN, JNull, JList, JDict}

Texts == SeqsUpTo(Chars, MaxLen)

AnalyzeReplies ==
    {Reply(TRUE, text, payload) :
        text \in Texts,
        payload \in { FullPayload(JInt(8)), FullPayload(JInt(0)),
                      Payload(Fields \ {"authors"}, JInt(8), <<"LLMs">>, <<"Skim">>) }}
    \cup {Reply(TRUE, text, Payload(present, score, <<"LLMs">>, <<"Skim">>)) :
        text \in {Object, <<"w">> \o Object},
        present \in SUBSET Fields,
        score \in {JInt(8), JStr(<<"h">>)}}
    \cup {Reply(TRUE, text, FullPayload(score)) :
        text \in {Object, <<"w">> \o Object},
        score \in ScoreValues}
    \cup {Reply(TRUE, Object, Payload(Fields, JInt(8), area, action)) :
        area \in AreaTexts, action \in ActionTexts}
    \cup {Reply(FALSE, <<>>, FullPayload(JInt(8)))}

ReadablePaper == Content(Paper, 1, << <<"w">>, <<" ", "w">> >>)

InitAnalyze ==
    /\ inbox = [n \in {Paper} |-> ReadablePaper]
    /\ processed = EmptyDir
    /\ csv = initialize_csv(Absent)
    /\ sheet = Absent
    /\ queue = <<Event(Paper, FALSE, FALSE)>>
    /\ InitHandler
    /\ \E reply \in AnalyzeReplies : replies = {reply}
    /\ events = MaxEvents

NextAnalyze ==
    \/ OnCreated
    \/ Settle
    \/ Extract
    \/ Analyze
    \/ WriteAnalysis
    \/ Archive
    \/ Release

SpecAnalyze == InitAnalyze /\ [][NextAnalyze]_vars

(***************************************************************************)
(* The two sinks on their own.  A writer of each kind has been constructed *)
(* on a store that was absent or empty; further constructions (program     *)
(* starts) are interleaved with appended rows.                             *)
(***************************************************************************)
SinkRecords ==
    { analyze_paper(Reply(TRUE, Object, FullPayload(JInt(8)))).record,
      analyze_paper(Reply(TRUE, Object, FullPayload(JInt(0)))).record }

DataRows(store) ==
    IF store = Absent THEN 0
    ELSE Cardinality({i \in 1..Len(store) : store[i] # HEADERS})

InitSink ==
    /\ inbox = EmptyDir
    /\ processed = EmptyDir
    /\ csv \in {initialize_csv(Absent), initialize_csv(<<>>)}
    /\ sheet \in {setup_sheet(Absent), setup_sheet(<<>>)}
    /\ queue = <<>>
    /\ InitHandler
    /\ replies = {}
    /\ events = 0

\* CSVWriter.__init__
CSVWriterInit ==
    /\ csv' = initialize_csv(csv)
    /\ UNCHANGED << inbox, processed, sheet, queue, pc, file_path, processing, paper_text,
                    analysis, response, replies, calls, overlapped, events, failed, uncaught, mainVars >>

\* CSVWriter.write_analysis, on the file a constructed writer found or created
CSVWriterWrite ==
    /\ csv # Absent
    /\ DataRows(csv) < MaxRows
    /\ \E record \in SinkRecords, filename \in {Paper, Scan}, success \in BOOLEAN :
         csv' = IF success THEN csv_append(csv, row_data(record, filename)) ELSE csv
    /\ UNCHANGED << inbox, processed, sheet, queue, pc, file_path, processing, paper_text,
                    analysis, response, replies, calls, overlapped, events, failed, uncaught, mainVars >>

\* SheetsWriter.__init__
SheetsWriterInit ==
    /\ sheet' = setup_sheet(sheet)
    /\ UNCHANGED << inbox, processed, csv, queue, pc, file_path, processing, paper_text,
                    analysis, response, replies, calls, overlapped, events, failed, uncaught, mainVars >>

\* SheetsWriter.write_analysis, on the worksheet a constructed writer holds
SheetsWriterWrite ==
    /\ sheet # Absent
    /\ sheet # <<>>
    /\ DataRows(sheet) < MaxRows
    /\ \E record \in SinkRecords, filename \in {Paper, Scan}, success \in BOOLEAN :
         sheet' = IF success THEN sheet_append(sheet, row_data(record, filename)) ELSE sheet
    /\ UNCHANGED << inbox, processed, csv, queue, pc, file_path, processing, paper_text,
                    analysis, response, replies, calls, overlapped, events, failed, uncaught, mainVars >>

NextSink ==
    \/ CSVWriterInit
    \/ CSVWriterWrite
    \/ SheetsWriterInit
    \/ SheetsWriterWrite

SpecSink == InitSink /\ [][NextSink]_vars


(***************************************************************************)
(* Properties.                                                             *)
(***************************************************************************)
Range(s) == {s[i] : i \in 1..Len(s)}

\* analyze_paper has been called for the event being handled: `response`
\* is the reply it got and `analysis` its outcome
Analyzed == calls.llm = 1 /\ pc \in {"write", "archive", "release"}

\* the text of one JSON object: braces around at most one member list
IsObjectText(t) ==
    /\ Len(t) >= 2
    /\ t[1] = "{"
    /\ t[Len(t)] = "}"
    /\ \A k \in 2..(Len(t) - 1) : t[k] \in Whitespace \cup {"m"}
    /\ Cardinality({k \in 2..(Len(t) - 1) : t[k] = "m"}) <= 1

\* the reply parses to an object; the fields that object holds
ParsedObject(reply) == reply.api_ok /\ JsonLoads(json_text(reply.text)).kind = "object"
Held(reply) ==
    IF JsonLoads(json_text(reply.text)).members THEN reply.payload.present ELSE {}
Lacking(reply) == Fields \ Held(reply)
FullObject(reply) == ParsedObject(reply) /\ Lacking(reply) = {}

\* C1: every record analyze_paper returns, and so every record handed to
\* write_analysis, holds the eight required fields and a relevance_score
\* that is an integer between 1 and 10, whatever JSON value the response
\* carried as relevance_score.
C1_RecordValid ==
    (Analyzed /\ analysis.ok) =>
        /\ DOMAIN analysis.record = Fields
        /\ analysis.record["relevance_score"].t = "int"
        /\ analysis.record["relevance_score"].n \in 1..10

\* C2: when the parsed response lacks required fields, analyze_paper fails
\* with an error that names exactly the lacking fields, returns no record,
\* and the pipeline of that file appends no row and archives nothing.
C2_MissingFieldsNamed ==
    \A reply \in replies :
        (ParsedObject(reply) /\ Lacking(reply) # {}) =>
            /\ csv = <<HEADERS>>
            /\ processed = EmptyDir
            /\ Paper \in DOMAIN inbox
            /\ calls.write = 0 /\ calls.move = 0
            /\ pc \notin {"write", "archive"}
            /\ (calls.llm = 1 =>
                   /\ ~analysis.ok
                   /\ analysis.record = EmptyDict
                   /\ analysis.prefix = "Failed to analyze paper"
                   /\ analysis.cause = "ValueError"
                   /\ Range(analysis.missing) = Lacking(reply)
                   /\ Len(analysis.missing) = Cardinality(Lacking(reply)))

C2_Witness ==
    /\ pc = "release"
    /\ calls.llm = 1
    /\ ParsedObject(response)
    /\ Lacking(response) = {"title", "recommended_action"}
    /\ analysis.missing = <<"title", "recommended_action">>

\* C3: a relevance_score that coerces to an integer outside 1..10 comes
\* back as the nearest bound, 1 below and 10 above, and every other field
\* comes back as the response gave it.
C3_ClampedToNearestBound ==
    (Analyzed /\ FullObject(response) /\ PyInt(response.payload.score).ok
        /\ PyInt(response.payload.score).n \notin 1..10) =>
        /\ analysis.ok
        /\ analysis.record["relevance_score"] =
               JInt(IF PyInt(response.payload.score).n < 1 THEN 1 ELSE 10)
        /\ \A f \in Fields \ {"relevance_score"} :
               analysis.record[f] = DictOf(response.payload)[f]

C3_Witness ==
    /\ Analyzed
    /\ FullObject(response)
    /\ response.payload.score = JInt(13)
    /\ analysis.record["relevance_score"] = JInt(10)

\* C4: a response with all eight fields whose relevance_score cannot be
\* coerced to an integer does not make analyze_paper fail: the record comes
\* back with relevance_score 5.
C4_DefaultsToFive ==
    (Analyzed /\ FullObject(response) /\ ~PyInt(response.payload.score).ok) =>
        /\ analysis.ok
        /\ analysis.record["relevance_score"] = JInt(5)

\* C5, its second and third sentences: a response without '{' or without
\* '}' is parsed whole, and a candidate that does not parse is an analysis
\* error and no record.
C5_WholeOrError ==
    /\ ("{" \notin Range(response.text) \/ "}" \notin Range(response.text)) =>
           (analysis.cause = "JSONDecodeError" <=> ~JsonLoads(response.text).ok)
    /\ ~JsonLoads(json_text(response.text)).ok =>
           /\ ~analysis.ok
           /\ analysis.record = EmptyDict
           /\ analysis.prefix = "Invalid JSON response from Gemini"

\* C5 as claimed: a JSON object surrounded by arbitrary leading and trailing
\* prose is parsed as the object alone (the span from the first '{' to the
\* last '}') and gives the record of the object alone.
C5_ArbitraryProse ==
    (Analyzed /\ response.api_ok) =>
        /\ \A i, j \in 1..Len(response.text) :
               (i < j /\ IsObjectText(SubSeq(response.text, i, j))) =>
                   /\ json_text(response.text) = SubSeq(response.text, i, j)
                   /\ analysis = analyze_paper(
                          Reply(TRUE, SubSeq(response.text, i, j), response.payload))
        /\ C5_WholeOrError

BraceFree(t) == "{" \notin Range(t) /\ "}" \notin Range(t)

\* C5, amended: a JSON object surrounded by leading and trailing prose that
\* holds neither '{' nor '}' is parsed as the object alone and gives the
\* record of the object alone; a response without '{' or without '}' is
\* parsed whole; a candidate that does not parse is an analysis error and no
\* record.
C5_BraceFreeProse ==
    (Analyzed /\ response.api_ok) =>
        /\ \A i, j \in 1..Len(response.text) :
               (/\ i < j
                /\ IsObjectText(SubSeq(response.text, i, j))
                /\ BraceFree(SubSeq(response.text, 1, i - 1))
                /\ BraceFree(SubSeq(response.text, j + 1, Len(response.text)))) =>
                   /\ json_text(response.text) = SubSeq(response.text, i, j)
                   /\ analysis = analyze_paper(
                          Reply(TRUE, SubSeq(response.text, i, j), response.payload))
        /\ C5_WholeOrError

C5_Witness ==
    /\ Analyzed
    /\ response.text = <<"w", "{", "m", "}">>
    /\ analysis.ok
    /\ analysis.record = DictOf(response.payload)

(***************************************************************************)
(* Properties of the watcher.                                              *)
(***************************************************************************)
\* the first unused name among name, name_1, name_2, ...
SmallestFree(dir, name) ==
    IF name \notin DOMAIN dir THEN name
    ELSE Suffixed(name, Min({k \in 1..(Cardinality(DOMAIN dir) + 1) :
                                Suffixed(name, k) \notin DOMAIN dir}))

\* C6: archiving never overwrites: every file of the processed folder stays
\* there with its content, and a file is moved to its own name when that is
\* unused and otherwise to <stem>_k.pdf for the smallest unused k >= 1.
C6_NeverOverwrites ==
    [][ /\ \A n \in DOMAIN processed :
              n \in DOMAIN processed' /\ processed'[n] = processed[n]
        /\ processed' # processed =>
              /\ pc = "archive"
              /\ file_path \in DOMAIN inbox
              /\ file_path \notin DOMAIN inbox'
              /\ DOMAIN processed' =
                     DOMAIN processed \cup {SmallestFree(processed, file_path)}
              /\ processed'[SmallestFree(processed, file_path)] = inbox[file_path]
      ]_vars

C6_Witness ==
    /\ Suffixed(Paper, 2) \in DOMAIN processed
    /\ processed[Suffixed(Paper, 2)].gen > 0
    /\ processed[Paper] = Old(Paper)
    /\ processed[Suffixed(Paper, 1)] = Old(Suffixed(Paper, 1))

\* C7: of two creation events for one path, the second arriving before the
\* first is finished, only the first runs the pipeline: the second is
\* ignored.
C7_SecondEventIgnored == ~(overlapped /\ calls.extract > 0)

WhitespaceOnly(text) == \A i \in 1..Len(text) : text[i] \in Whitespace

\* C8: when the extracted text is empty or whitespace only the pipeline
\* stops after extraction: no call of the analyzer, no row, and the file
\* stays in the inbox.
C8_BlankTextStops ==
    /\ [](  (paper_text # NoText /\ WhitespaceOnly(paper_text)) =>
                /\ pc = "release"
                /\ calls.llm = 0 /\ calls.write = 0 /\ calls.move = 0
                /\ file_path \in DOMAIN inbox )
    /\ [][ (paper_text # NoText /\ WhitespaceOnly(paper_text)) =>
                /\ csv' = csv
                /\ processed' = processed
                /\ file_path \in DOMAIN inbox' ]_vars

C8_Witness ==
    /\ pc = "release"
    /\ paper_text = <<" ", "\n", "\n">>
    /\ calls.extract = 1

\* files the pipeline moved to the processed folder, rows the sink holds
ArchivedFrom(name) ==
    {n \in DOMAIN processed : processed[n].gen > 0 /\ processed[n].origin = name}
RowsOf(name) ==
    {i \in 1..Len(csv) : csv[i] # HEADERS /\ csv[i][2] = name}

\* C9: a file leaves the inbox for the processed folder only after
\* write_analysis for it returned success: the move follows the append of
\* its row, a failed step leaves the file in the inbox, and no archived file
\* lacks a row.
C9_ArchivedOnlyAfterRow ==
    /\ [](\A name \in InboxNames :
              Cardinality(ArchivedFrom(name)) <= Cardinality(RowsOf(name)))
    /\ [][ (\E n \in DOMAIN inbox : n \notin DOMAIN inbox') \/ processed' # processed =>
              /\ pc = "archive"
              /\ calls = [extract |-> 1, llm |-> 1, write |-> 1, move |-> 0]
              /\ analysis.ok
              /\ csv # <<>>
              /\ csv[Len(csv)] = row_data(analysis.record, file_path)
              /\ DOMAIN inbox' = DOMAIN inbox \ {file_path} ]_vars

C9_Witness ==
    /\ Paper \in DOMAIN processed
    /\ processed[Paper].gen > 0
    /\ RowsOf(Paper) # {}
    /\ Paper \notin DOMAIN inbox

(***************************************************************************)
(* Properties of the sinks.                                                *)
(***************************************************************************)
HeaderRows(store) == {i \in 1..Len(store) : store[i] = HEADERS}

\* C10: after any constructions of a writer interleaved with any appends, a
\* non-empty store holds exactly one header row and it is the first row.
C10_OneHeaderFirst ==
    \A store \in {csv, sheet} :
        (store # Absent /\ store # <<>>) =>
            /\ Cardinality(HeaderRows(store)) = 1
            /\ store[1] = HEADERS

(***************************************************************************)
(* Properties of the watch as a whole.                                     *)
(***************************************************************************)
\* a creation event of a file with the .pdf suffix is next in the queue
PdfEventNext ==
    /\ queue # <<>>
    /\ ~Head(queue).is_directory
    /\ Lower(Head(queue).src_path.ext) = "pdf"

\* C11: no failure of a pipeline step leaves the creation-event handler or
\* ends the dispatch thread: no exception is ever uncaught, the handler
\* returns to idle with nothing of the failed run left over, and the next
\* .pdf creation event the running observer dispatches is accepted.
C11_FailureContained ==
    /\ uncaught = "none"
    /\ observer # "dead"
    /\ pc = "idle" =>
          /\ failed = "none"
          /\ calls = NoCalls
          /\ paper_text = NoText
          /\ analysis = NoAnalysis
          /\ PdfEventNext => accepted(Head(queue), processing)
    /\ (pc = "idle" /\ observer = "running" /\ queue # <<>>) => ENABLED OnCreated

\* the first file failed at a step and stays in the inbox, its event handled;
\* the file that came after it has been archived
C11_Witness ==
    /\ observer = "running"
    /\ \E n \in DOMAIN inbox, m \in DOMAIN processed :
         /\ Lower(n.ext) = "pdf"
         /\ inbox[n].gen = 1
         /\ ~Unfinished(n)
         /\ \/ inbox[n].body = Corrupt
            \/ ~is_blank(JoinPages(inbox[n].body))
         /\ processed[m].gen = 2
         /\ RowsOf(processed[m].origin) # {}

(***************************************************************************)
(* Properties of the rows.                                                 *)
(***************************************************************************)
\* C12: every data row of the sink has a research area of the five listed
\* and a recommended action of the three listed, whatever the reply carried
\* in the two fields.
C12_ClosedSets ==
    \A i \in 1..Len(csv) :
        csv[i] # HEADERS =>
            /\ csv[i][5] \in {JStr(area) : area \in research_areas}
            /\ csv[i][10] \in {JStr(action) : action \in recommended_actions}

(***************************************************************************)
(* Properties of the in-flight set and of the steps of one run.            *)
(***************************************************************************)
\* C13: the in-flight entry of a path is released on every exit of the
\* handler: the set holds at most the path being handled, it is empty
\* whenever no event is being handled, the step that ends a handling removes
\* the path, and a later .pdf event for any path is accepted again.
C13_Released ==
    /\ [](  /\ pc = "idle" => processing = {}
            /\ pc # "idle" => processing \subseteq {file_path}
            /\ (pc = "idle" /\ PdfEventNext) => accepted(Head(queue), processing) )
    /\ [][ (pc # "idle" /\ pc' = "idle") =>
                /\ pc = "release"
                /\ file_path \notin processing'
                /\ processing' = {} ]_vars

\* an event for a path handled before is accepted again and the path is
\* back in the set, after the handling before it ended in a failure
C13_Witness ==
    /\ overlapped
    /\ pc = "extract"
    /\ processing = {file_path}
    /\ file_path \in DOMAIN inbox
    /\ inbox[file_path].body = Corrupt

\* C14: the sink is append-only with one row per processed file: the only
\* change of the store is write_analysis appending the row of the event being
\* handled, and every archived file has exactly one row.  Rows name their
\* file by its inbox name; when no file of that name is left in the inbox
\* every file dropped under the name has been archived, so the rows of the
\* name are as many as the files archived from it.
C14_OneRowPerFile ==
    /\ [](\A name \in InboxNames :
              name \notin DOMAIN inbox =>
                  Cardinality(RowsOf(name)) = Cardinality(ArchivedFrom(name)))
    /\ [][ csv' # csv =>
              /\ pc = "write"
              /\ csv' = Append(csv, row_data(analysis.record, file_path)) ]_vars

\* the step of the run at which `step` is invoked comes after `earlier`
NotBefore(step, earlier) == calls[step] <= calls[earlier]

\* C15: nothing is retried: for one accepted event each of extraction, the
\* LLM call, the sink write and the move is invoked at most once and in that
\* order, the LLM call exactly once when extraction gave non-blank text, and
\* after a failed step the run is over with no later step invoked.
C15_NoRetry ==
    /\ \A step \in DOMAIN calls : calls[step] <= 1
    /\ NotBefore("llm", "extract") /\ NotBefore("write", "llm") /\ NotBefore("move", "write")
    /\ (pc \in {"write", "archive", "release"} /\ paper_text # NoText /\ ~is_blank(paper_text))
          => calls.llm = 1
    /\ calls.llm = 1 => (paper_text # NoText /\ ~is_blank(paper_text))
    /\ failed # "none" => pc = "release"
    /\ failed = "extract" => calls = [extract |-> 1, llm |-> 0, write |-> 0, move |-> 0]
    /\ failed = "analyze" => calls = [extract |-> 1, llm |-> 1, write |-> 0, move |-> 0]
    /\ failed = "write" => calls = [extract |-> 1, llm |-> 1, write |-> 1, move |-> 0]
    /\ failed = "archive" => calls = [extract |-> 1, llm |-> 1, write |-> 1, move |-> 1]

\* the LLM call of a run failed and the run is over
C15_Witness ==
    /\ pc = "release"
    /\ failed = "analyze"
    /\ calls.llm = 1
    /\ calls.write = 0

(***************************************************************************)
(* Properties of the shutdown.                                             *)
(***************************************************************************)
\* C16: after the keyboard interrupt arrived in the watch loop the watch is
\* stopped: no pipeline run starts once observer.stop() was called, the run
\* in flight goes on step by step and the dispatch thread ends only when the
\* handler has returned, main returns only after that, and main eventually
\* returns exit code 0.
C16_Shutdown ==
    /\ [](  /\ main = "returned" =>
                /\ exit_code = <<0>>
                /\ observer \in {"stopped", "dead"}
                /\ pc = "idle"
            /\ main # "returned" => exit_code = NoExit
            /\ main \in {"watching", "interrupted"} => observer # "stopping" )
    /\ [][  /\ (observer # "running" /\ pc = "idle") => pc' = "idle"
            /\ (observer = "stopping" /\ observer' # "stopping") =>
                  /\ pc = "idle"
                  /\ observer' = "stopped"
            /\ (main # "watching" /\ pc \in {"settle", "extract", "analyze", "write", "archive"})
                  => pc' # "idle" ]_vars
    /\ (main # "watching") ~> (main = "returned" /\ exit_code = <<0>>)

\* observer.stop() was called while a run was in flight, and the run has gone
\* on through the sink write and the move to its end
C16_Witness ==
    /\ main = "joining"
    /\ observer = "stopping"
    /\ pc = "release"
    /\ failed = "none"
    /\ calls = [extract |-> 1, llm |-> 1, write |-> 1, move |-> 1]
    /\ file_path \notin DOMAIN inbox

(***************************************************************************)
(* Properties of sink initialization.                                      *)
(***************************************************************************)
\* C17: a sink initialized on a store that was absent or empty holds the
\* header as its first row, so every data row comes after the header.
C17_HeaderAfterInit ==
    \A store \in {csv, sheet} :
        /\ store # Absent
        /\ store # <<>>
        /\ store[1] = HEADERS
        /\ \A i \in 1..Len(store) : store[i] # HEADERS => i > 1

=============================================================================
